---- MODULE Spec2Model ----
(***************************************************************************)
(* A model of src/src/adamW.py: the data-preparation guard, the            *)
(* tokenization adapter and the fit / validate / checkpoint / test loop    *)
(* that the script configures through L.Trainer and ModelCheckpoint.       *)
(***************************************************************************)
EXTENDS Integers, Sequences, FiniteSets, TLC

(* ------------------------------ bounds --------------------------------- *)
\* number of mini-batches of the train / validation / test loaders
TrainBatches == 1
ValBatches == 1
TestBatches == 2
\* records per mini-batch (64 in the script, scaled down)
BatchSize == 1
\* number of launches of the script examined by the partition guard
MaxRuns == 3
\* tokenizer.model_max_length (512 for distilbert, scaled down)
ModelMaxLength == 3
\* longest raw text, in word pieces
MaxTextLen == 2
\* records per split seen by the tokenization adapter
NTexts == 2

(* ------------------------- program constants --------------------------- *)
max_epochs == 10
save_top_k == 1
\* Trainer default num_sanity_val_steps, which the script does not override
num_sanity_val_steps == 2

VARIABLES
    pc,          \* position of the script in section 5 and after
    epoch,       \* trainer.current_epoch
    batch_idx,   \* index of the next batch of the running pass
    params,      \* model parameters, identified by the optimizer step that produced them
    train_acc,   \* self.train_acc
    val_acc,     \* self.val_acc
    test_acc,    \* self.test_acc
    logged,      \* last value logged under "train_acc", "val_acc", "accuracy"
    ckpts,       \* checkpoints kept by ModelCheckpoint (best_k_models)
    observed,    \* history: the validation accuracies logged by the epochs of fit so far
    first_max,   \* history: the first epoch whose validation accuracy is the highest of observed
    n_train,     \* history: completed training epochs
    n_val,       \* history: completed validation passes of fit
    n_test,      \* history: completed test passes
    io_error,    \* history: a checkpoint could not be written or read back
    reported,    \* what print(test_acc) printed, or NoReport
    files,       \* train.csv / val.csv / test.csv: Absent or their content
    runs,        \* launches of the script so far
    partition_calls, \* calls of partition_dataset so far
    loaded,      \* what load_dataset read in the last launch
    df,          \* the dataframe of the running launch
    part_pc,     \* position of the launch in section 1
    dataset,     \* imdb_dataset: split -> texts, or NotEncoded before it is read
    encoded,     \* imdb_tokenized: split -> encodings, or NotEncoded
    tok_pc       \* position of the script in section 2

trainVars == <<pc, epoch, batch_idx, params, train_acc, val_acc, test_acc,
               logged, ckpts, observed, first_max, n_train, n_val, n_test, io_error, reported>>
partVars == <<files, runs, partition_calls, loaded, df, part_pc>>
tokVars == <<dataset, encoded, tok_pc>>
vars == <<trainVars, partVars, tokVars>>

(* ------------------------- metric accumulators ------------------------- *)
\* torchmetrics.Accuracy: running correct / total, plus the provenance of
\* every prediction it was updated with.
EmptyMetric == [correct |-> 0, total |-> 0, preds |-> {}]

Prediction(split, stage, e, b, p) ==
    [split |-> split, stage |-> stage, epoch |-> e, batch |-> b, params |-> p]

\* metric(predicted_labels, batch["label"]) with c correct predictions in the batch
Update(m, c, pred) ==
    [correct |-> m.correct + c, total |-> m.total + BatchSize,
     preds |-> m.preds \cup {pred}]

\* accuracies a, b are <<correct, total>>; a > b as fractions
AccGreater(a, b) == a[1] * b[2] > b[1] * a[2]
AccEqual(a, b) == a[1] * b[2] = b[1] * a[2]
Compute(m) == <<m.correct, m.total>>

NoLog == [value |-> <<0, 0>>, preds |-> {}, epoch |-> -1]
Log(m, e) == [value |-> Compute(m), preds |-> m.preds, epoch |-> e]

NoReport == <<-1, -1>>
Absent == <<"absent">>
NotEncoded == <<>>

(* --------------------------- ModelCheckpoint --------------------------- *)
\* mutants of MonitorOp: mode="min", and a comparison that lets ties replace
MonitorOpMin(current, kept) == AccGreater(kept, current)
MonitorOpGe(current, kept) == ~AccGreater(kept, current)

\* mode="max": the comparison ModelCheckpoint applies to the monitored value
MonitorOp(current, kept) == AccGreater(current, kept)

\* kth_best_model_path: the worst of the kept checkpoints (mode="max")
KthBest(cs) == CHOOSE k \in cs : \A o \in cs : ~AccGreater(k.score, o.score)
\* best_model_path: the best of the kept checkpoints, what ckpt_path="best" loads
BestCkpt(cs) == CHOOSE k \in cs : \A o \in cs : ~AccGreater(o.score, k.score)

\* check_monitor_top_k for save_top_k=1, monitor="val_acc"
CheckMonitorTopK(cs, current) ==
    IF Cardinality(cs) < save_top_k
    THEN TRUE
    ELSE MonitorOp(current, KthBest(cs).score)

\* _update_best_and_save: drop the k-th best when k are kept, keep the new one
UpdateBestAndSave(cs, current, e, p) ==
    LET kept == IF Cardinality(cs) = save_top_k /\ save_top_k > 0
                THEN cs \ {KthBest(cs)} ELSE cs
    IN  kept \cup {[epoch |-> e, score |-> current, params |-> p]}

(* ------------------------------- fit ----------------------------------- *)
Min(a, b) == IF a < b THEN a ELSE b
SanitySteps == Min(num_sanity_val_steps, ValBatches)

\* mutant of FitDone: one epoch too many
FitDoneOffByOne(e) == e >= max_epochs

\* epochs run until max_epochs have been completed
FitDone(e) == e + 1 >= max_epochs

\* one optimizer step of AdamW on the loss returned by training_step
OptimizerStep(p) == p + 1

\* history of the run: whether acc is higher than every accuracy observed before
NewHigh(seen, acc) == \A a \in seen : AccGreater(acc, a)

TrainInit ==
    /\ pc = "idle"
    /\ epoch = 0
    /\ batch_idx = 0
    /\ params = 0
    /\ train_acc = EmptyMetric
    /\ val_acc = EmptyMetric
    /\ test_acc = EmptyMetric
    /\ logged = [train_acc |-> NoLog, val_acc |-> NoLog, accuracy |-> NoLog]
    /\ ckpts = {}
    /\ observed = {}
    /\ first_max = -1
    /\ n_train = 0
    /\ n_val = 0
    /\ n_test = 0
    /\ io_error = FALSE
    /\ reported = NoReport

\* trainer.fit starts with the sanity check of the validation loop
StartFit ==
    /\ pc = "idle"
    /\ pc' = "sanity"
    /\ batch_idx' = 0
    /\ UNCHANGED <<epoch, params, train_acc, val_acc, test_acc, logged, ckpts,
                   observed, first_max, n_train, n_val, n_test, reported,
                   io_error, partVars, tokVars>>

\* validation_step during the sanity check
SanityValStep(c) ==
    /\ pc = "sanity"
    /\ batch_idx < SanitySteps
    /\ val_acc' = Update(val_acc, c,
                         Prediction("validation", "sanity", epoch, batch_idx, params))
    /\ batch_idx' = batch_idx + 1
    /\ UNCHANGED <<pc, epoch, params, train_acc, test_acc, logged, ckpts,
                   observed, first_max, n_train, n_val, n_test, reported,
                   io_error, partVars, tokVars>>

\* end of the sanity check: results and metrics are reset, nothing is saved
SanityEnd ==
    /\ pc = "sanity"
    /\ batch_idx = SanitySteps
    /\ val_acc' = EmptyMetric
    /\ pc' = "train"
    /\ batch_idx' = 0
    /\ UNCHANGED <<epoch, params, train_acc, test_acc, logged, ckpts,
                   observed, first_max, n_train, n_val, n_test, reported,
                   io_error, partVars, tokVars>>

\* training_step followed by the optimizer step on the returned loss
TrainingStep(c) ==
    /\ pc = "train"
    /\ batch_idx < TrainBatches
    /\ train_acc' = Update(train_acc, c,
                           Prediction("train", "fit", epoch, batch_idx, params))
    /\ params' = OptimizerStep(params)
    /\ IF batch_idx + 1 = TrainBatches
       THEN /\ pc' = "val"
            /\ batch_idx' = 0
            /\ n_train' = n_train + 1
       ELSE /\ batch_idx' = batch_idx + 1
            /\ UNCHANGED <<pc, n_train>>
    /\ UNCHANGED <<epoch, val_acc, test_acc, logged, ckpts, observed, first_max,
                   n_val, n_test, reported,
                   io_error, partVars, tokVars>>

\* validation_step
ValidationStep(c) ==
    /\ pc = "val"
    /\ batch_idx < ValBatches
    /\ val_acc' = Update(val_acc, c,
                         Prediction("validation", "fit", epoch, batch_idx, params))
    /\ batch_idx' = batch_idx + 1
    /\ UNCHANGED <<pc, epoch, params, train_acc, test_acc, logged, ckpts,
                   observed, first_max, n_train, n_val, n_test, reported,
                   io_error, partVars, tokVars>>

\* end of the validation pass: "val_acc" is computed, logged and reset, then
\* ModelCheckpoint.on_validation_end keeps or discards the epoch's snapshot
ValidationEnd ==
    /\ pc = "val"
    /\ batch_idx = ValBatches
    /\ LET current == Compute(val_acc)
       IN  /\ logged' = [logged EXCEPT !.val_acc = Log(val_acc, epoch)]
           /\ observed' = observed \cup {current}
           /\ first_max' = IF NewHigh(observed, current) THEN epoch ELSE first_max
           /\ ckpts' = IF CheckMonitorTopK(ckpts, current)
                       THEN UpdateBestAndSave(ckpts, current, epoch, params)
                       ELSE ckpts
    /\ val_acc' = EmptyMetric
    /\ n_val' = n_val + 1
    /\ pc' = "epoch_end"
    /\ UNCHANGED <<epoch, batch_idx, params, train_acc, test_acc, n_train,
                   n_test, reported,
                   io_error, partVars, tokVars>>

\* the checkpoint ModelCheckpoint wants to keep cannot be written: the
\* exception leaves trainer.fit and the script
CheckpointSaveFails ==
    /\ pc = "val"
    /\ batch_idx = ValBatches
    /\ CheckMonitorTopK(ckpts, Compute(val_acc))
    /\ pc' = "failed"
    /\ io_error' = TRUE
    /\ UNCHANGED <<epoch, batch_idx, params, train_acc, val_acc, test_acc, logged,
                   ckpts, observed, first_max, n_train, n_val, n_test, reported,
                   partVars, tokVars>>

\* mutant of TrainEpochEnd: the training accumulator is not reset
TrainEpochEndNoReset ==
    /\ pc = "epoch_end"
    /\ logged' = [logged EXCEPT !.train_acc = Log(train_acc, epoch)]
    /\ epoch' = epoch + 1
    /\ batch_idx' = 0
    /\ pc' = IF FitDone(epoch) THEN "fitted" ELSE "train"
    /\ UNCHANGED <<params, train_acc, val_acc, test_acc, ckpts, observed, first_max,
                   n_train, n_val, n_test, reported, io_error, partVars, tokVars>>

\* end of the training epoch: "train_acc" (on_epoch=True) is computed, logged
\* and reset; fit goes on to the next epoch or returns
TrainEpochEnd ==
    /\ pc = "epoch_end"
    /\ logged' = [logged EXCEPT !.train_acc = Log(train_acc, epoch)]
    /\ train_acc' = EmptyMetric
    /\ epoch' = epoch + 1
    /\ batch_idx' = 0
    /\ pc' = IF FitDone(epoch) THEN "fitted" ELSE "train"
    /\ UNCHANGED <<params, val_acc, test_acc, ckpts, observed, first_max, n_train,
                   n_val, n_test, reported,
                   io_error, partVars, tokVars>>

(* ------------------------------- test ---------------------------------- *)
\* mutant of RestoreBest: the test pass runs on the parameters left in memory
RestoreNothing ==
    /\ pc = "fitted"
    /\ pc' = "test"
    /\ batch_idx' = 0
    /\ UNCHANGED <<epoch, params, train_acc, val_acc, test_acc, logged, ckpts,
                   observed, first_max, n_train, n_val, n_test, reported,
                   io_error, partVars, tokVars>>

\* trainer.test(..., ckpt_path="best"): the best checkpoint is loaded into the model
RestoreBest ==
    /\ pc = "fitted"
    /\ ckpts # {}
    /\ params' = BestCkpt(ckpts).params
    /\ pc' = "test"
    /\ batch_idx' = 0
    /\ UNCHANGED <<epoch, train_acc, val_acc, test_acc, logged, ckpts,
                   observed, first_max, n_train, n_val, n_test, reported,
                   io_error, partVars, tokVars>>

\* mutant of RestoreFails: the error is swallowed and the test pass runs anyway
RestoreFailsIgnored ==
    /\ pc = "fitted"
    /\ pc' = "test"
    /\ batch_idx' = 0
    /\ io_error' = TRUE
    /\ UNCHANGED <<epoch, params, train_acc, val_acc, test_acc, logged,
                   ckpts, observed, first_max, n_train, n_val, n_test, reported,
                   partVars, tokVars>>

\* the best checkpoint cannot be read back: the exception leaves trainer.test
RestoreFails ==
    /\ pc = "fitted"
    /\ pc' = "failed"
    /\ io_error' = TRUE
    /\ UNCHANGED <<epoch, batch_idx, params, train_acc, val_acc, test_acc, logged,
                   ckpts, observed, first_max, n_train, n_val, n_test, reported,
                   partVars, tokVars>>

\* mutant of TestStep: the step also runs the optimizer
TestStepTrains(c) ==
    /\ pc = "test"
    /\ batch_idx < TestBatches
    /\ test_acc' = Update(test_acc, c,
                          Prediction("test", "test", epoch, batch_idx, params))
    /\ params' = OptimizerStep(params)
    /\ batch_idx' = batch_idx + 1
    /\ UNCHANGED <<pc, epoch, train_acc, val_acc, logged, ckpts, observed, first_max,
                   n_train, n_val, n_test, reported, io_error, partVars, tokVars>>

\* test_step
TestStep(c) ==
    /\ pc = "test"
    /\ batch_idx < TestBatches
    /\ test_acc' = Update(test_acc, c,
                          Prediction("test", "test", epoch, batch_idx, params))
    /\ batch_idx' = batch_idx + 1
    /\ UNCHANGED <<pc, epoch, params, train_acc, val_acc, logged, ckpts,
                   observed, first_max, n_train, n_val, n_test, reported,
                   io_error, partVars, tokVars>>

\* end of the test pass: "accuracy" is computed, logged and reset, trainer.test
\* returns it and the script prints it
TestEnd ==
    /\ pc = "test"
    /\ batch_idx = TestBatches
    /\ logged' = [logged EXCEPT !.accuracy = Log(test_acc, epoch)]
    /\ reported' = Compute(test_acc)
    /\ test_acc' = EmptyMetric
    /\ n_test' = n_test + 1
    /\ pc' = "done"
    /\ UNCHANGED <<epoch, batch_idx, params, train_acc, val_acc, ckpts,
                   observed, first_max, n_train, n_val,
                   io_error, partVars, tokVars>>

Next ==
    \/ StartFit
    \/ \E c \in 0..BatchSize : SanityValStep(c)
    \/ SanityEnd
    \/ \E c \in 0..BatchSize : TrainingStep(c)
    \/ \E c \in 0..BatchSize : ValidationStep(c)
    \/ ValidationEnd
    \/ CheckpointSaveFails
    \/ TrainEpochEnd
    \/ RestoreBest
    \/ RestoreFails
    \/ \E c \in 0..BatchSize : TestStep(c)
    \/ TestEnd

(* --------------------------- data preparation -------------------------- *)
SplitFiles == {"train.csv", "val.csv", "test.csv"}
\* the dataframes load_dataset_into_to_dataframe can hand to the script
Dataframes == {"df_a", "df_b", "df_c"}

\* partition_dataset(df): shuffles df with a fixed seed and writes the three files
partition_dataset(d) == [f \in SplitFiles |-> <<d, f>>]

\* op.exists("train.csv") and op.exists("val.csv") and op.exists("test.csv")
SplitsExist(fs) ==
    fs["train.csv"] # Absent /\ fs["val.csv"] # Absent /\ fs["test.csv"] # Absent

PartIdle ==
    /\ files = [f \in SplitFiles |-> Absent]
    /\ runs = 0
    /\ partition_calls = 0
    /\ loaded = [f \in SplitFiles |-> Absent]
    /\ df = "none"
    /\ part_pc = "start"

\* the working directory of the first launch: each split file is missing or
\* was written by an earlier partition
PartInit ==
    /\ files \in {[f \in SplitFiles |-> IF c[f] = "absent" THEN Absent ELSE <<c[f], f>>] :
                    c \in [SplitFiles -> Dataframes \cup {"absent"}]}
    /\ runs = 0
    /\ partition_calls = 0
    /\ loaded = [f \in SplitFiles |-> Absent]
    /\ df = "none"
    /\ part_pc = "start"

\* download_dataset(); df = load_dataset_into_to_dataframe()
LoadDataframe(d) ==
    /\ part_pc = "start"
    /\ runs < MaxRuns
    /\ df' = d
    /\ runs' = runs + 1
    /\ part_pc' = "guard"
    /\ UNCHANGED <<files, partition_calls, loaded, trainVars, tokVars>>

\* mutant of GuardedPartition: the existence check is missing
UnguardedPartition ==
    /\ part_pc = "guard"
    /\ files' = partition_dataset(df)
    /\ partition_calls' = partition_calls + 1
    /\ part_pc' = "load"
    /\ UNCHANGED <<runs, loaded, df, trainVars, tokVars>>

\* if not (all three split files exist): partition_dataset(df)
GuardedPartition ==
    /\ part_pc = "guard"
    /\ IF ~SplitsExist(files)
       THEN /\ files' = partition_dataset(df)
            /\ partition_calls' = partition_calls + 1
       ELSE UNCHANGED <<files, partition_calls>>
    /\ part_pc' = "load"
    /\ UNCHANGED <<runs, loaded, df, trainVars, tokVars>>

\* imdb_dataset = load_dataset("csv", data_files=...); the rest of the launch
\* does not touch the split files
LoadCsv ==
    /\ part_pc = "load"
    /\ loaded' = files
    /\ part_pc' = "start"
    /\ UNCHANGED <<files, runs, partition_calls, df, trainVars, tokVars>>

PartNext ==
    \/ \E d \in Dataframes : LoadDataframe(d)
    \/ GuardedPartition
    \/ LoadCsv

(* ------------------------- tokenization adapter ------------------------ *)
Splits == {"train", "validation", "test"}
Vocab == {"w"}
Texts == UNION {[1..n -> Vocab] : n \in 0..MaxTextLen}
TextBatches == [1..NTexts -> Texts]

Repeat(x, n) == [i \in 1..n |-> x]

\* mutant of Tokens: truncation=False
TokensNoTruncation(text) == <<"[CLS]">> \o text \o <<"[SEP]">>

\* truncation=True: the word pieces of a text between [CLS] and [SEP], cut so
\* that the whole sequence is at most model_max_length long
Tokens(text) ==
    <<"[CLS]">> \o SubSeq(text, 1, Min(Len(text), ModelMaxLength - 2)) \o <<"[SEP]">>

\* padding=True: the length every sequence of the batch is padded to
PadTo(batch) ==
    CHOOSE n \in 0..(MaxTextLen + 2) :
        /\ \E i \in DOMAIN batch : Len(Tokens(batch[i])) = n
        /\ \A i \in DOMAIN batch : Len(Tokens(batch[i])) <= n

\* tokenizer(batch["text"], truncation=True, padding=True)
tokenize_text(batch) ==
    [i \in DOMAIN batch |->
        LET t == Tokens(batch[i])
            pad == PadTo(batch) - Len(t)
        IN  [input_ids |-> t \o Repeat("[PAD]", pad),
             attention_mask |-> Repeat(1, Len(t)) \o Repeat(0, pad)]]

TokIdle ==
    /\ dataset = [s \in Splits |-> NotEncoded]
    /\ encoded = [s \in Splits |-> NotEncoded]
    /\ tok_pc = "load"

\* load_dataset reads one split file into imdb_dataset
ReadSplit(s, batch) ==
    /\ tok_pc = "load"
    /\ dataset[s] = NotEncoded
    /\ dataset' = [dataset EXCEPT ![s] = batch]
    /\ tok_pc' = IF \A o \in Splits \ {s} : dataset[o] # NotEncoded
                 THEN "map" ELSE "load"
    /\ UNCHANGED <<encoded, trainVars, partVars>>

\* imdb_dataset.map(tokenize_text, batched=True, batch_size=None): every
\* split is handed to tokenize_text as one batch
MapTokenize ==
    /\ tok_pc = "map"
    /\ encoded' = [s \in Splits |-> tokenize_text(dataset[s])]
    /\ tok_pc' = "done"
    /\ UNCHANGED <<dataset, trainVars, partVars>>

TokNext ==
    \/ \E s \in Splits, batch \in TextBatches : ReadSplit(s, batch)
    \/ MapTokenize

(* --------------------------- specifications ---------------------------- *)
Init == TrainInit /\ PartIdle /\ TokIdle
Spec == Init /\ [][Next]_vars

PartSpecInit == TrainInit /\ PartInit /\ TokIdle
SpecPart == PartSpecInit /\ [][PartNext]_vars

SpecTok == Init /\ [][TokNext]_vars

(* ------------------------------- claims -------------------------------- *)
\* the snapshot written by the validation pass of epoch e holds the parameters
\* left by the training steps of epochs 0..e
ParamsAfterEpoch(e) == (e + 1) * TrainBatches

\* C1: once a validation pass of fit has completed, a checkpoint is retained
\* and its recorded validation accuracy is greater than or equal to every
\* validation accuracy logged by the epochs run so far.
C1_CheckpointMonotone ==
    n_val > 0 =>
        /\ ckpts # {}
        /\ \A k \in ckpts : \A a \in observed : ~AccGreater(a, k.score)

\* C1 witness: a later epoch logged a strictly lower validation accuracy than
\* the one recorded for the retained checkpoint.
C1_Witness ==
    \E k \in ckpts :
        /\ logged.val_acc.epoch > k.epoch
        /\ AccGreater(k.score, logged.val_acc.value)

\* C2: after the first validation pass of fit exactly one snapshot is
\* retained; it is the snapshot (epoch, accuracy, parameters) of the first
\* epoch that reached the highest validation accuracy seen so far, so a later
\* epoch with an equal accuracy does not replace it.
C2_CheckpointPolicy ==
    n_val > 0 =>
        /\ Cardinality(ckpts) = 1
        /\ \A k \in ckpts :
            /\ k.score \in observed
            /\ \A a \in observed : ~AccGreater(a, k.score)
            /\ k.epoch = first_max
            /\ k.params = ParamsAfterEpoch(k.epoch)
            /\ AccEqual(logged.val_acc.value, k.score) => k.epoch <= logged.val_acc.epoch

\* C2 witness: a later epoch tied with the retained snapshot and the earlier
\* snapshot is still the one kept.
C2_Witness ==
    \E k \in ckpts :
        /\ logged.val_acc.epoch > k.epoch
        /\ AccEqual(logged.val_acc.value, k.score)

\* C3: training epoch e starts only after e training epochs and e validation
\* passes; each validation pass follows its training epoch; the test pass
\* starts only after max_epochs training epochs and max_epochs validation
\* passes; a finished run has done exactly max_epochs of each and one test
\* pass, and nothing can happen after it; before that, a run that has not
\* failed always has a next step.
C3_StageOrdering ==
    /\ pc = "train" => n_train = epoch /\ n_val = epoch /\ epoch < max_epochs
    /\ pc = "val" => n_train = epoch + 1 /\ n_val = epoch
    /\ pc = "epoch_end" => n_train = epoch + 1 /\ n_val = epoch + 1
    /\ pc \in {"idle", "sanity", "train", "val", "epoch_end", "fitted"} =>
           n_test = 0 /\ test_acc = EmptyMetric
    /\ pc \in {"fitted", "test", "done"} => n_train = max_epochs /\ n_val = max_epochs
    /\ pc = "test" => n_test = 0
    /\ pc = "done" => n_test = 1 /\ ~ENABLED Next
    /\ pc \notin {"done", "failed"} => ENABLED Next

\* C3 witness: a run that went through every stage and finished.
C3_Witness == pc = "done" /\ n_train = max_epochs /\ n_val = max_epochs /\ n_test = 1

\* C4: every prediction that enters the reported test accuracy was made with
\* the parameters of the retained checkpoint, each test batch is predicted
\* once, and the printed value is the accuracy over exactly those predictions.
C4_TestUsesBest ==
    /\ pc = "test" =>
           \A p \in test_acc.preds : \A k \in ckpts : p.params = k.params
    /\ pc = "done" =>
           /\ ckpts # {}
           /\ \A p \in logged.accuracy.preds : \A k \in ckpts : p.params = k.params
           /\ {p.batch : p \in logged.accuracy.preds} = 0..(TestBatches - 1)
           /\ reported = logged.accuracy.value
           /\ reported[2] = TestBatches * BatchSize

\* C4 witness: a finished run whose retained checkpoint is not the last
\* epoch's, so the loaded parameters differ from those left by training.
C4_Witness ==
    /\ pc = "done"
    /\ reported # NoReport
    /\ \E k \in ckpts : k.params # ParamsAfterEpoch(max_epochs - 1)

\* C5 as stated: the model parameters change only in a training step.
C5_OnlyTrainingStepChangesParams ==
    [][params' # params => pc = "train"]_vars

\* C5 amended: the model parameters change only in a training step or when
\* the retained checkpoint is loaded at the start of the test pass; no
\* validation step (of the sanity check or of fit) and no test step changes
\* them, and a test step does not change the retained checkpoint.
C5_ParamsFrame ==
    [][/\ params' # params => pc = "train" \/ (pc = "fitted" /\ pc' = "test")
       /\ pc \in {"sanity", "val", "test"} => params' = params
       /\ pc = "test" => ckpts' = ckpts]_vars

\* C5 witness: test steps have run on restored parameters that differ from
\* the ones training left, and they are still the restored ones.
C5_Witness ==
    /\ pc = "test"
    /\ batch_idx = TestBatches
    /\ params # ParamsAfterEpoch(max_epochs - 1)
    /\ \E k \in ckpts : params = k.params

\* C8: after a checkpoint write or read failure the run is in its failed
\* state, no test step has run, no test accuracy was logged or printed, and
\* nothing further (no retry) can happen.
C8_CheckpointIOFailure ==
    io_error =>
        /\ pc = "failed"
        /\ test_acc = EmptyMetric
        /\ n_test = 0
        /\ logged.accuracy = NoLog
        /\ reported = NoReport
        /\ ~ENABLED Next

\* C8 witness: the best checkpoint could not be reloaded after a completed fit.
C8_Witness == io_error /\ n_val = max_epochs

\* preds are the predictions of every batch of one pass, and of nothing else
FromPass(preds, split, stage, e, nbatches) ==
    /\ \A p \in preds : p.split = split /\ p.stage = stage /\ p.epoch = e
    /\ {p.batch : p \in preds} = 0..(nbatches - 1)

\* C10: each accumulator only ever holds predictions of its own split made in
\* the running pass; it is empty when a pass starts; the value logged for an
\* epoch counts every batch of that epoch's pass once and nothing else.
C10_MetricIsolation ==
    /\ \A p \in train_acc.preds : p.split = "train" /\ p.stage = "fit" /\ p.epoch = epoch
    /\ \A p \in val_acc.preds :
           /\ p.split = "validation" /\ p.epoch = epoch
           /\ p.stage = (IF pc = "sanity" THEN "sanity" ELSE "fit")
    /\ \A p \in test_acc.preds : p.split = "test" /\ p.stage = "test"
    /\ batch_idx = 0 /\ pc = "train" => train_acc = EmptyMetric
    /\ batch_idx = 0 /\ pc \in {"sanity", "val"} => val_acc = EmptyMetric
    /\ batch_idx = 0 /\ pc = "test" => test_acc = EmptyMetric
    /\ logged.train_acc # NoLog =>
           /\ FromPass(logged.train_acc.preds, "train", "fit",
                       logged.train_acc.epoch, TrainBatches)
           /\ logged.train_acc.value[2] = TrainBatches * BatchSize
    /\ logged.val_acc # NoLog =>
           /\ FromPass(logged.val_acc.preds, "validation", "fit",
                       logged.val_acc.epoch, ValBatches)
           /\ logged.val_acc.value[2] = ValBatches * BatchSize
    /\ logged.accuracy # NoLog =>
           /\ FromPass(logged.accuracy.preds, "test", "test", max_epochs, TestBatches)
           /\ logged.accuracy.value[2] = TestBatches * BatchSize

\* C10 witness: the last epoch's training and validation accuracy and the
\* test accuracy have all been logged.
C10_Witness ==
    /\ logged.train_acc.epoch = max_epochs - 1
    /\ logged.val_acc.epoch = max_epochs - 1
    /\ logged.accuracy # NoLog

\* the three split files are in the working directory
AllSplitFilesPresent == \A f \in SplitFiles : files[f] # Absent

\* C6: partition_dataset is called at most once over all launches; a step
\* taken while the three split files exist calls no partitioner and leaves
\* the files as they are; and every launch loads the files as they were once
\* all three existed.
C6_PartitionIdempotent ==
    /\ [](partition_calls <= 1)
    /\ [](part_pc = "start" /\ runs > 0 => AllSplitFilesPresent /\ loaded = files)
    /\ [][AllSplitFilesPresent =>
              files' = files /\ partition_calls' = partition_calls]_vars

\* C6 witness: a second launch found the files written by the first launch's
\* partition and loaded them without partitioning again.
C6_Witness ==
    /\ runs >= 2
    /\ part_pc = "start"
    /\ partition_calls = 1
    /\ loaded = files

\* C7 as stated: every encoding has the model's maximum input length.
C7_FixedLengthL ==
    tok_pc = "done" =>
        \A s \in Splits : \A i \in DOMAIN encoded[s] :
            /\ Len(encoded[s][i].input_ids) = ModelMaxLength
            /\ Len(encoded[s][i].attention_mask) = ModelMaxLength

\* the length of the longest text of a split, in word pieces
Longest(batch) ==
    CHOOSE n \in 0..MaxTextLen :
        /\ \E i \in DOMAIN batch : Len(batch[i]) = n
        /\ \A i \in DOMAIN batch : Len(batch[i]) <= n

\* C7 amended: within a split every input_ids and attention_mask has one
\* common length, the smaller of L and the longest text of the split plus its
\* two special tokens; a text of more than L - 2 word pieces is truncated to L
\* tokens, a shorter one keeps all its word pieces and is padded to the common
\* length, and the mask marks exactly the tokens that are not padding.
C7_EncodingShape ==
    tok_pc = "done" =>
        \A s \in Splits :
            LET n == Min(Longest(dataset[s]) + 2, ModelMaxLength)
            IN  /\ DOMAIN encoded[s] = DOMAIN dataset[s]
                /\ \A i \in DOMAIN encoded[s] :
                    LET e == encoded[s][i]
                        kept == Min(Len(dataset[s][i]) + 2, ModelMaxLength)
                    IN  /\ Len(e.input_ids) = n
                        /\ Len(e.attention_mask) = n
                        /\ n <= ModelMaxLength
                        /\ \A j \in 1..n : (e.attention_mask[j] = 1) = (j <= kept)
                        /\ \A j \in 1..n : (e.input_ids[j] = "[PAD]") = (j > kept)
                        /\ e.input_ids[1] = "[CLS]" /\ e.input_ids[kept] = "[SEP]"
                        /\ \A j \in 2..(kept - 1) : e.input_ids[j] = dataset[s][i][j - 1]

\* C7 witness: one split holds a truncated text and is encoded at length L
\* while another split, of short texts only, is encoded at a smaller length.
C7_Witness ==
    /\ tok_pc = "done"
    /\ \E s, t \in Splits :
        /\ \E i \in DOMAIN dataset[s] : Len(dataset[s][i]) + 2 > ModelMaxLength
        /\ Len(encoded[s][1].input_ids) = ModelMaxLength
        /\ Len(encoded[t][1].input_ids) < ModelMaxLength
====
